---- MODULE Spec2Model ----
(***************************************************************************)
(* The two console-to-logger rewriting scripts, src/refactor-logger.py     *)
(* ("logger") and src/refactor_logs.py ("logs"), and their CLI drivers.    *)
(*                                                                         *)
(* A text is a sequence of tokens.  A token is a piece of text that every  *)
(* character class of the scripts' regular expressions treats uniformly    *)
(* at the places where it can be met, so a regular expression over         *)
(* characters is matched token by token.  Concatenating the tokens of a    *)
(* sequence gives the text itself.                                         *)
(***************************************************************************)
EXTENDS Integers, Sequences, FiniteSets, TLC

\* The backquote character, which a TLA+ string cannot hold.
BQ == "BQ"

\* The character class of the three quote characters: ' " and the backquote.
Quote == {"'", "\"", BQ}

\* \s
Space == {" ", "\n"}

\* Tokens made of \w characters only.
Word == {"Failed", "err", "id", "x", "y", "import", "from", "refactored",
         "todo", "new", "Error", "logError"}

\* r'console\.(log|warn|error)'
ConsoleCalls == {"console.log", "console.warn", "console.error"}

\* The token at position i, "" past the end of the text.
At(t, i) == IF i >= 1 /\ i <= Len(t) THEN t[i] ELSE ""

\* The least position of P, or the position i itself past the end of the
\* text, or the position after the end when P is empty.
FirstOf(P, t, i) ==
    IF P # {} THEN CHOOSE j \in P : \A k \in P : j <= k
    ELSE IF i > Len(t) THEN i ELSE Len(t) + 1

\* First position from i on whose token is not in S (a greedy S*).
SkipIn(t, i, S) == FirstOf({j \in i..Len(t) : t[j] \notin S}, t, i)

\* First position from i on whose token is in S (a greedy [^S]*).
SkipNotIn(t, i, S) == FirstOf({j \in i..Len(t) : t[j] \in S}, t, i)

\* Whether p occurs in t as a contiguous piece (Python's "p in t").
Contains(t, p) ==
    \E i \in 1..(Len(t) - Len(p) + 1) : SubSeq(t, i, i + Len(p) - 1) = p

\* str.strip(): from the first to the last token that is not white space.
Strip(t) ==
    LET P == {j \in 1..Len(t) : t[j] \notin Space}
    IN  IF P = {} THEN <<>>
        ELSE SubSeq(t, CHOOSE j \in P : \A k \in P : j <= k,
                       CHOOSE j \in P : \A k \in P : j >= k)

\* msg.replace('[', '').replace(']', '')
RemoveBrackets(t) == SelectSeq(t, LAMBDA k : k \notin {"[", "]"})

\* re.sub(r'\$\{[^}]+\}', '', msg)
RECURSIVE StripInterpFrom(_, _)
StripInterpFrom(t, i) ==
    LET j == SkipNotIn(t, i, {"$"})
        e == SkipNotIn(t, j + 2, {"}"})
    IN  IF j > Len(t) THEN SubSeq(t, i, Len(t))
        ELSE IF At(t, j + 1) = "{" /\ e > j + 2 /\ At(t, e) = "}"
        THEN SubSeq(t, i, j - 1) \o StripInterpFrom(t, e + 1)
        ELSE SubSeq(t, i, j) \o StripInterpFrom(t, j + 1)

StripInterp(t) == StripInterpFrom(t, 1)

\* '${' in msg
HasInterp(t) == Contains(t, <<"$", "{">>)

NoMatch == [ok |-> FALSE, end |-> 0, g1 |-> <<>>, g2 |-> <<>>]

\* head\(\s*[Quote]([^Quote]+)[Quote]\s*,\s*(\w+)\s*\)  matched at position i
MatchStrVar(t, i, head) ==
    LET a == SkipIn(t, i + 2, Space)
        b == SkipNotIn(t, a + 1, Quote)
        c == SkipIn(t, b + 1, Space)
        d == SkipIn(t, c + 1, Space)
        e == SkipIn(t, d, Word)
        f == SkipIn(t, e, Space)
    IN  IF /\ At(t, i) = head /\ At(t, i + 1) = "("
           /\ At(t, a) \in Quote /\ b > a + 1 /\ At(t, b) \in Quote
           /\ At(t, c) = "," /\ e > d /\ At(t, f) = ")"
        THEN [ok |-> TRUE, end |-> f,
              g1 |-> SubSeq(t, a + 1, b - 1), g2 |-> SubSeq(t, d, e - 1)]
        ELSE NoMatch

\* The template pattern without its end, \s*\) : head\(\s*BQ([^BQ]+)BQ
MatchTmplOpen(t, i, head) ==
    LET a == SkipIn(t, i + 2, Space)
        b == SkipNotIn(t, a + 1, {BQ})
    IN  IF /\ At(t, i) = head /\ At(t, i + 1) = "("
           /\ At(t, a) = BQ /\ b > a + 1 /\ At(t, b) = BQ
        THEN [ok |-> TRUE, end |-> b, g1 |-> SubSeq(t, a + 1, b - 1), g2 |-> <<>>]
        ELSE NoMatch

\* head\(\s*BQ([^BQ]+)BQ\s*\)
MatchTmpl(t, i, head) ==
    LET a == SkipIn(t, i + 2, Space)
        b == SkipNotIn(t, a + 1, {BQ})
        c == SkipIn(t, b + 1, Space)
    IN  IF /\ At(t, i) = head /\ At(t, i + 1) = "("
           /\ At(t, a) = BQ /\ b > a + 1 /\ At(t, b) = BQ /\ At(t, c) = ")"
        THEN [ok |-> TRUE, end |-> c, g1 |-> SubSeq(t, a + 1, b - 1), g2 |-> <<>>]
        ELSE NoMatch

\* head\(\s*[Quote]([^Quote]+)[Quote]\s*\)
MatchSimple(t, i, head) ==
    LET a == SkipIn(t, i + 2, Space)
        b == SkipNotIn(t, a + 1, Quote)
        c == SkipIn(t, b + 1, Space)
    IN  IF /\ At(t, i) = head /\ At(t, i + 1) = "("
           /\ At(t, a) \in Quote /\ b > a + 1 /\ At(t, b) \in Quote
           /\ At(t, c) = ")"
        THEN [ok |-> TRUE, end |-> c, g1 |-> SubSeq(t, a + 1, b - 1), g2 |-> <<>>]
        ELSE NoMatch

\* head\(BQ\$\{ICONS\.[A-Z_]+\}\s*([^BQ]*)BQ(?:,\s*([^)]*))?\);
\* The token "ICONS.OK" stands for ICONS\.[A-Z_]+ ; g2 is empty when the
\* optional group did not take part or captured the empty string.
MatchIcons(t, i, head) ==
    LET a == SkipIn(t, i + 7, Space)
        b == SkipNotIn(t, a, {BQ})
        c == SkipIn(t, b + 2, Space)
        d == SkipNotIn(t, c, {")"})
    IN  IF /\ At(t, i) = head /\ At(t, i + 1) = "(" /\ At(t, i + 2) = BQ
           /\ At(t, i + 3) = "$" /\ At(t, i + 4) = "{"
           /\ At(t, i + 5) = "ICONS.OK" /\ At(t, i + 6) = "}"
           /\ At(t, b) = BQ
        THEN IF At(t, b + 1) = "," /\ At(t, d) = ")" /\ At(t, d + 1) = ";"
             THEN [ok |-> TRUE, end |-> d + 1,
                   g1 |-> SubSeq(t, a, b - 1), g2 |-> SubSeq(t, c, d - 1)]
             ELSE IF At(t, b + 1) = ")" /\ At(t, b + 2) = ";"
                  THEN [ok |-> TRUE, end |-> b + 2,
                        g1 |-> SubSeq(t, a, b - 1), g2 |-> <<>>]
                  ELSE NoMatch
        ELSE NoMatch

\* head\('([^']*)',\s*([^)]*)\);
MatchPlain(t, i, head) ==
    LET b == SkipNotIn(t, i + 3, {"'"})
        c == SkipIn(t, b + 2, Space)
        d == SkipNotIn(t, c, {")"})
    IN  IF /\ At(t, i) = head /\ At(t, i + 1) = "(" /\ At(t, i + 2) = "'"
           /\ At(t, b) = "'" /\ At(t, b + 1) = ","
           /\ At(t, d) = ")" /\ At(t, d + 1) = ";"
        THEN [ok |-> TRUE, end |-> d + 1,
              g1 |-> SubSeq(t, i + 3, b - 1), g2 |-> SubSeq(t, c, d - 1)]
        ELSE NoMatch

\* The passes of src/refactor-logger.py in the order refactor_file runs them:
\* refactor_console_error, refactor_console_warn, refactor_console_log.
\* trailing: whether the pattern takes an argument after the message.
RulesLogger ==
    << [id |-> "E1", head |-> "console.error", kind |-> "strvar", level |-> "log.error", trailing |-> "yes"],
       [id |-> "E2", head |-> "console.error", kind |-> "tmpl",   level |-> "log.error", trailing |-> "no"],
       [id |-> "E3", head |-> "console.error", kind |-> "simple", level |-> "log.error", trailing |-> "no"],
       [id |-> "W1", head |-> "console.warn",  kind |-> "tmpl",   level |-> "log.warn",  trailing |-> "no"],
       [id |-> "W2", head |-> "console.warn",  kind |-> "strvar", level |-> "log.warn",  trailing |-> "yes"],
       [id |-> "W3", head |-> "console.warn",  kind |-> "simple", level |-> "log.warn",  trailing |-> "no"],
       [id |-> "L1", head |-> "console.log",   kind |-> "tmpl",   level |-> "log.info",  trailing |-> "no"],
       [id |-> "L2", head |-> "console.log",   kind |-> "simple", level |-> "log.info",  trailing |-> "no"] >>

\* The passes of src/refactor_logs.py (Padrao 1 to 5) in the order of refactor_file.
\* The ICONS patterns take the trailing argument optionally.
RulesLogs ==
    << [id |-> "P1", head |-> "console.log",   kind |-> "icons",    level |-> "log.info", trailing |-> "optional"],
       [id |-> "P2", head |-> "console.warn",  kind |-> "icons",    level |-> "log.warn", trailing |-> "optional"],
       [id |-> "P3", head |-> "console.error", kind |-> "iconserr", level |-> "logError", trailing |-> "optional"],
       [id |-> "P4", head |-> "console.log",   kind |-> "plain",    level |-> "log.info", trailing |-> "yes"],
       [id |-> "P5", head |-> "console.error", kind |-> "plainerr", level |-> "logError", trailing |-> "yes"] >>

RuleIds == {"E1", "E2", "E3", "W1", "W2", "W3", "L1", "L2", "P1", "P2", "P3", "P4", "P5"}

\* The match of a rule's pattern at position i of t.
Match(r, t, i) ==
    CASE r.kind = "strvar" -> MatchStrVar(t, i, r.head)
      [] r.kind = "tmpl" -> MatchTmpl(t, i, r.head)
      [] r.kind = "simple" -> MatchSimple(t, i, r.head)
      [] r.kind \in {"icons", "iconserr"} -> MatchIcons(t, i, r.head)
      [] r.kind \in {"plain", "plainerr"} -> MatchPlain(t, i, r.head)

\* The string-plus-variable replacement with the message put first.
ReplStrVarMsgFirst(m) ==
    <<"logError", "(", "\"">> \o Strip(RemoveBrackets(m.g1)) \o <<"\"", ",", " ">>
      \o m.g2
      \o <<",", " ", "{", " ", "component:", " ", "\"", "refactored", "\"", " ", "}", ")">>

\* f'logError({error_var}, "{msg}", {{ component: "refactored" }})'
ReplStrVar(m) ==
    <<"logError", "(">> \o m.g2 \o <<",", " ", "\"">>
      \o Strip(RemoveBrackets(m.g1))
      \o <<"\"", ",", " ", "{", " ", "component:", " ", "\"", "refactored", "\"", " ", "}", ")">>

\* f'log.error({{ msg: "{msg}" }})'
LeveledCall(level, msg) ==
    <<level, "(", "{", " ", "msg:", " ", "\"">> \o msg \o <<"\"", " ", "}", ")">>

\* The template-literal replacement: interpolations are cut out of the message.
ReplTmpl(level, m) ==
    IF HasInterp(m.g1) THEN LeveledCall(level, Strip(StripInterp(m.g1)))
    ELSE LeveledCall(level, m.g1)

\* r'log.error({ msg: "\1" })'
ReplSimple(level, m) == LeveledCall(level, m.g1)

\* f"log.info({{ msg: '{msg}', component: 'todo'{', ' + data if data else ''} }});"
ReplIcons(level, m) ==
    <<level, "(", "{", " ", "msg:", " ", "'">> \o Strip(m.g1)
      \o <<"'", ",", " ", "component:", " ", "'", "todo", "'">>
      \o (IF m.g2 # <<>> THEN <<",", " ">> \o m.g2 ELSE <<>>)
      \o <<" ", "}", ")", ";">>

\* f"logError({...}, '{msg}', {{ component: 'todo' }});"
LogErrorTodo(first, msg) ==
    <<"logError", "(">> \o first \o <<",", " ", "'">> \o msg
      \o <<"'", ",", " ", "{", " ", "component:", " ", "'", "todo", "'", " ", "}", ")", ";">>

\* data or 'new Error("' + msg + '")'
ReplIconsErr(m) ==
    LET msg == Strip(m.g1)
    IN  LogErrorTodo(IF m.g2 # <<>> THEN m.g2
                     ELSE <<"new", " ", "Error", "(", "\"">> \o msg \o <<"\"", ")">>,
                     msg)

\* f"log.info({{ msg: '{msg}', {data} }});"
ReplPlain(level, m) ==
    <<level, "(", "{", " ", "msg:", " ", "'">> \o m.g1 \o <<"'", ",", " ">> \o m.g2
      \o <<" ", "}", ")", ";">>

\* f"logError({data}, '{msg}', {{ component: 'todo' }});"
ReplPlainErr(m) == LogErrorTodo(m.g2, m.g1)

\* The replacement text a rule derives from a match.
Replace(r, m) ==
    CASE r.kind = "strvar" -> ReplStrVar(m)
      [] r.kind = "tmpl" -> ReplTmpl(r.level, m)
      [] r.kind = "simple" -> ReplSimple(r.level, m)
      [] r.kind = "icons" -> ReplIcons(r.level, m)
      [] r.kind = "iconserr" -> ReplIconsErr(m)
      [] r.kind = "plain" -> ReplPlain(r.level, m)
      [] r.kind = "plainerr" -> ReplPlainErr(m)

\* re.sub(pattern, replace, content): the non-overlapping matches from left
\* to right, each replaced; the scan goes on after the end of a match.
\* A match can only start at the call name of the pattern: the scan goes
\* from one occurrence of it to the next.
RECURSIVE SubFrom(_, _, _)
SubFrom(r, t, i) ==
    LET j == SkipNotIn(t, i, {r.head})
        m == Match(r, t, j)
    IN  IF j > Len(t) THEN SubSeq(t, i, Len(t))
        ELSE IF m.ok THEN SubSeq(t, i, j - 1) \o Replace(r, m) \o SubFrom(r, t, m.end + 1)
        ELSE SubSeq(t, i, j) \o SubFrom(r, t, j + 1)

Sub(r, t) == SubFrom(r, t, 1)

\* The number of matches re.sub replaces (the calls of the replace function).
RECURSIVE MatchesFrom(_, _, _)
MatchesFrom(r, t, i) ==
    LET j == SkipNotIn(t, i, {r.head})
        m == Match(r, t, j)
    IN  IF j > Len(t) THEN 0
        ELSE IF m.ok THEN 1 + MatchesFrom(r, t, m.end + 1)
        ELSE MatchesFrom(r, t, j + 1)

Matches(r, t) == MatchesFrom(r, t, 1)

\* len(re.findall(r'console\.(log|warn|error)', content))
CountConsole(t) == Len(SelectSeq(t, LAMBDA k : k \in ConsoleCalls))

\* "import { log, logError } from '@/lib/services/logger';"
ImportLine ==
    <<"import", " ", "{", " ", "log, logError", " ", "}", " ", "from", " ",
      "'", "@/lib/services/logger", "'", ";">>

\* The same import written with double quotes.
ImportLineDQ ==
    <<"import", " ", "{", " ", "log, logError", " ", "}", " ", "from", " ",
      "\"", "@/lib/services/logger", "\"", ";">>

\* has_logger_import looking for the single-quoted form only.
has_logger_import_single(t) ==
    Contains(t, <<"from", " ", "'", "@/lib/services/logger", "'">>)

\* 'from \'@/lib/services/logger\'' in content or 'from "@/lib/services/logger"' in content
has_logger_import(t) ==
    \/ Contains(t, <<"from", " ", "'", "@/lib/services/logger", "'">>)
    \/ Contains(t, <<"from", " ", "\"", "@/lib/services/logger", "\"">>)

\* content.split('\n')
RECURSIVE SplitLines(_)
SplitLines(t) ==
    LET e == SkipNotIn(t, 1, {"\n"})
    IN  IF e > Len(t) THEN <<t>>
        ELSE <<SubSeq(t, 1, e - 1)>> \o SplitLines(SubSeq(t, e + 1, Len(t)))

\* '\n'.join(lines)
RECURSIVE JoinLines(_)
JoinLines(ls) ==
    IF Len(ls) = 0 THEN <<>>
    ELSE IF Len(ls) = 1 THEN ls[1]
    ELSE ls[1] \o <<"\n">> \o JoinLines(Tail(ls))

\* re.match(r'^import\s+.*?;?\s*$', line.strip()): the stripped line starts
\* with "import" and white space (which stripping leaves only before more text).
IsImportLine(line) ==
    LET l == Strip(line) IN At(l, 1) = "import" /\ At(l, 2) \in Space

\* The index (from 1) of the last line that is an import line, 0 if none.
LastImportIdx(ls) ==
    LET S == {i \in 1..Len(ls) : IsImportLine(ls[i])}
    IN  IF S = {} THEN 0 ELSE CHOOSE i \in S : \A j \in S : j <= i

\* add_logger_import of src/refactor-logger.py
add_logger_import(t) ==
    IF has_logger_import(t) THEN t
    ELSE LET ls == SplitLines(t)
             k == LastImportIdx(ls)
         IN  IF k > 0
             THEN JoinLines(SubSeq(ls, 1, k) \o <<ImportLine>> \o SubSeq(ls, k + 1, Len(ls)))
             ELSE ImportLine \o <<"\n", "\n">> \o t

\* r"(import [^;]+;)" matched at position i: the position of its ';', else 0.
MatchImport(t, i) ==
    LET e == SkipNotIn(t, i + 2, {";"})
    IN  IF At(t, i) = "import" /\ At(t, i + 1) = " " /\ e > i + 2 /\ At(t, e) = ";"
        THEN e ELSE 0

\* re.search(r"(import [^;]+;)", content).end(): the position of the ';' ending
\* the first match, 0 when there is no match.
ImportSearch(t) ==
    LET P == {i \in 1..Len(t) : MatchImport(t, i) > 0}
    IN  IF P = {} THEN 0 ELSE MatchImport(t, CHOOSE i \in P : \A k \in P : i <= k)

\* The import insertion at the end of refactor_file of src/refactor_logs.py
InsertImportLogs(t, count) ==
    IF count > 0 /\ ~Contains(t, <<"log, logError">>) /\ ~Contains(t, ImportLine)
    THEN LET e == ImportSearch(t)
         IN  IF e > 0
             THEN SubSeq(t, 1, e) \o <<"\n">> \o ImportLine \o SubSeq(t, e + 1, Len(t))
             ELSE t
    ELSE t

(***************************************************************************)
(* The input texts.  A text is a prelude of import lines followed by up to *)
(* MaxStmts statements, one per line.                                      *)
(***************************************************************************)
MaxStmts == 2
MaxArgs == 2

\* console.log('Failed');
SSimple(h) == <<h, "(", "'", "Failed", "'", ")", ";">>
\* console.log(BQ Failed BQ);
STmpl(h) == <<h, "(", BQ, "Failed", BQ, ")", ";">>
\* console.log(BQ Failed ${id} BQ);
STmplInterp(h) == <<h, "(", BQ, "Failed", " ", "$", "{", "id", "}", BQ, ")", ";">>
\* console.log('[x] Failed:', err);
SStrVar(h) ==
    <<h, "(", "'", "[", "x", "]", " ", "Failed", ":", "'", ",", " ", "err", ")", ";">>
\* console.log(BQ Failed ${id} BQ, err);
STmplVar(h) ==
    <<h, "(", BQ, "Failed", " ", "$", "{", "id", "}", BQ, ",", " ", "err", ")", ";">>
\* console.log(BQ ${ICONS.OK} Failed BQ);
SIcons(h) == <<h, "(", BQ, "$", "{", "ICONS.OK", "}", " ", "Failed", BQ, ")", ";">>
\* console.log(BQ ${ICONS.OK} Failed ${id} BQ);
SIconsInterp(h) ==
    <<h, "(", BQ, "$", "{", "ICONS.OK", "}", " ", "Failed", " ", "$", "{", "id", "}",
      BQ, ")", ";">>
\* console.log(BQ ${ICONS.OK} Failed BQ, err);
SIconsVar(h) ==
    <<h, "(", BQ, "$", "{", "ICONS.OK", "}", " ", "Failed", BQ, ",", " ", "err", ")", ";">>
\* console.log(x);  a call of no recognized shape
SOther(h) == <<h, "(", "x", ")", ";">>

\* console.log(BQ console.error(${x}'Failed') BQ);
SNestedInterp ==
    <<"console.log", "(", BQ, "console.error", "(", "$", "{", "x", "}", "'", "Failed",
      "'", ")", BQ, ")", ";">>
\* console.error('x', console.log('Failed');
SNestedData ==
    <<"console.error", "(", "'", "x", "'", ",", " ", "console.log", "(", "'", "Failed",
      "'", ")", ";">>
\* console.log(BQ Failed ${console.warn} BQ);
SInterpConsole ==
    <<"console.log", "(", BQ, "Failed", " ", "$", "{", "console.warn", "}", BQ, ")", ";">>
\* x;  a statement that is no console call
SNoCall == <<"x", ";">>

Shapes(h) ==
    {SSimple(h), STmpl(h), STmplInterp(h), SStrVar(h), STmplVar(h), SIcons(h),
     SIconsInterp(h), SIconsVar(h), SOther(h)}

Statements ==
    UNION {Shapes(h) : h \in ConsoleCalls}
      \cup {SNestedInterp, SNestedData, SInterpConsole, SNoCall}

\* The statements that may follow the first one.
FollowUps == {SSimple("console.log"), SStrVar("console.error"), SIcons("console.warn")}

\* import x from 'y';
OtherImport(a) == <<"import", " ", a, " ", "from", " ", "'", "y", "'", ";", "\n">>

Preludes ==
    {<<>>, OtherImport("x"), OtherImport("x") \o OtherImport("y"),
     ImportLine \o <<"\n">>, ImportLineDQ \o <<"\n">>}

RECURSIVE BodiesOfLen(_)
BodiesOfLen(k) ==
    IF k = 0 THEN {<<>>}
    ELSE IF k = 1 THEN Statements
    ELSE {b \o <<"\n">> \o f : b \in BodiesOfLen(k - 1), f \in FollowUps}

Inputs == {p \o b : p \in Preludes, b \in UNION {BodiesOfLen(k) : k \in 0..MaxStmts}}

\* The file contents of the runs over several paths.
CliTexts == {SStrVar("console.error"), SNoCall}

Scripts == {"logger", "logs"}
Status == {"ok", "missing", "unreadable", "unwritable"}

Rules(sc) == IF sc = "logger" THEN RulesLogger ELSE RulesLogs

VARIABLES
    script,     \* which of the two scripts runs
    status,     \* per path of sys.argv[1:]: how the file system answers for it
    input,      \* per path: the file's text when the program was first started
    disk,       \* per path: the file's text now
    run,        \* 1 in the first run of the program, 2 in a second run
    pc,         \* the position of the program
    idx,        \* the index of the path being processed (the for loop of main)
    content,    \* refactor_file's content
    original,   \* refactor_file's original_content
    count_before, \* refactor-logger.py: count_before
    count,      \* refactor_logs.py: count, refactor-logger.py: the count returned
    pi,         \* the index of the next pass to apply
    hits,       \* per rule: the matches it replaced in the current file
    handled,    \* the paths main has dealt with, in order
    results,    \* refactor-logger.py: results, as <<path index, count>>
    written,    \* the paths whose file was written in this run
    summary,    \* <<>> until the summary is printed, then <<[files, statements]>>
    exit_code   \* the exit status, once pc = "exit"

vars == <<script, status, input, disk, run, pc, idx, content, original, count_before,
          count, pi, hits, handled, results, written, summary, exit_code>>

NArgs == Len(status)

NoHits == [r \in RuleIds |-> 0]

RECURSIVE SumCounts(_)
SumCounts(rs) == IF rs = <<>> THEN 0 ELSE Head(rs)[2] + SumCounts(Tail(rs))

\* The state of the program when it is started on the files as they are.
Started ==
    /\ pc = "main" /\ idx = 0 /\ content = <<>> /\ original = <<>>
    /\ count_before = 0 /\ count = 0 /\ pi = 0 /\ hits = NoHits
    /\ handled = <<>> /\ results = <<>> /\ written = {} /\ summary = <<>>
    /\ exit_code = 0

Init ==
    /\ script \in Scripts
    /\ \E n \in 0..MaxArgs :
         /\ status \in [1..n -> Status]
         /\ \/ input \in [1..n -> CliTexts]
            \/ n = 1 /\ status[1] = "ok" /\ input \in [1..n -> Inputs]
    /\ disk = input
    /\ run = 1
    /\ Started

(***************************************************************************)
(* src/refactor-logger.py                                                  *)
(***************************************************************************)

\* What main does with refactor_file's (success, count): a success is
\* appended to results, a failure is only reported; the loop goes on.
LoggerReturn(success, c) ==
    /\ results' = IF success THEN Append(results, <<idx, c>>) ELSE results
    /\ count' = c
    /\ handled' = Append(handled, idx)
    /\ idx' = idx + 1
    /\ pc' = "loop"

\* main: the usage check, sys.exit(1) without arguments.
logger_main ==
    /\ script = "logger" /\ pc = "main"
    /\ IF NArgs = 0
       THEN pc' = "exit" /\ exit_code' = 1 /\ idx' = idx
       ELSE pc' = "loop" /\ exit_code' = exit_code /\ idx' = 1
    /\ UNCHANGED <<script, status, input, disk, run, content, original, count_before,
                   count, pi, hits, handled, results, written, summary>>

\* main leaving the loop (break) at a path that does not exist.
logger_not_found_break ==
    /\ script = "logger" /\ pc = "loop" /\ idx <= NArgs
    /\ status[idx] = "missing"
    /\ handled' = Append(handled, idx)
    /\ idx' = NArgs + 1
    /\ UNCHANGED <<script, status, input, disk, run, pc, content, original, count_before,
                   count, pi, hits, results, written, summary, exit_code>>

\* main: a path that does not exist is reported and skipped.
logger_not_found ==
    /\ script = "logger" /\ pc = "loop" /\ idx <= NArgs
    /\ status[idx] = "missing"
    /\ handled' = Append(handled, idx)
    /\ idx' = idx + 1
    /\ UNCHANGED <<script, status, input, disk, run, pc, content, original, count_before,
                   count, pi, hits, results, written, summary, exit_code>>

\* refactor_file: read_text and the count of console statements; the file
\* that cannot be read raises, which refactor_file catches: (False, 0).
logger_read ==
    /\ script = "logger" /\ pc = "loop" /\ idx <= NArgs
    /\ status[idx] # "missing"
    /\ hits' = NoHits
    /\ IF status[idx] = "unreadable"
       THEN /\ LoggerReturn(FALSE, 0)
            /\ UNCHANGED <<content, original, count_before, pi>>
       ELSE /\ content' = disk[idx]
            /\ original' = disk[idx]
            /\ count_before' = CountConsole(disk[idx])
            /\ IF CountConsole(disk[idx]) = 0
               THEN LoggerReturn(TRUE, 0) /\ pi' = pi
               ELSE /\ pc' = "import" /\ pi' = 0
                    /\ UNCHANGED <<results, count, handled, idx>>
    /\ UNCHANGED <<script, status, input, disk, run, written, summary, exit_code>>

\* refactor_file: content = add_logger_import(content)
logger_import ==
    /\ script = "logger" /\ pc = "import"
    /\ content' = add_logger_import(content)
    /\ pc' = "pass" /\ pi' = 1
    /\ UNCHANGED <<script, status, input, disk, run, idx, original, count_before, count,
                   hits, handled, results, written, summary, exit_code>>

\* One re.sub of refactor_console_error, refactor_console_warn or
\* refactor_console_log: the next pass of the fixed sequence.
logger_pass ==
    /\ script = "logger" /\ pc = "pass" /\ pi <= Len(RulesLogger)
    /\ LET r == RulesLogger[pi]
       IN  /\ content' = Sub(r, content)
           /\ hits' = [hits EXCEPT ![r.id] = Matches(r, content)]
    /\ pi' = pi + 1
    /\ UNCHANGED <<script, status, input, disk, run, pc, idx, original, count_before,
                   count, handled, results, written, summary, exit_code>>

\* count_before - count_after
StatementsConverted(before, t) == before - CountConsole(t)

\* refactor_file: the count after, and the write when the content changed;
\* a write that fails raises, which refactor_file catches: (False, 0).
logger_finish ==
    /\ script = "logger" /\ pc = "pass" /\ pi > Len(RulesLogger)
    /\ IF content # original
       THEN IF status[idx] = "unwritable"
            THEN LoggerReturn(FALSE, 0) /\ UNCHANGED <<disk, written>>
            ELSE /\ disk' = [disk EXCEPT ![idx] = content]
                 /\ written' = written \cup {idx}
                 /\ LoggerReturn(TRUE, StatementsConverted(count_before, content))
       ELSE LoggerReturn(TRUE, 0) /\ UNCHANGED <<disk, written>>
    /\ UNCHANGED <<script, status, input, run, content, original, count_before, pi, hits,
                   summary, exit_code>>

\* main ending with status 1 when a path was not processed with success.
logger_summary_strict ==
    /\ script = "logger" /\ pc = "loop" /\ idx > NArgs
    /\ summary' = <<[files |-> Len(results), statements |-> SumCounts(results)]>>
    /\ pc' = "exit" /\ exit_code' = IF Len(results) < NArgs THEN 1 ELSE 0
    /\ UNCHANGED <<script, status, input, disk, run, idx, content, original, count_before,
                   count, pi, hits, handled, results, written>>

\* main: after the loop the summary is printed and the process ends normally.
logger_summary ==
    /\ script = "logger" /\ pc = "loop" /\ idx > NArgs
    /\ summary' = <<[files |-> Len(results), statements |-> SumCounts(results)]>>
    /\ pc' = "exit" /\ exit_code' = 0
    /\ UNCHANGED <<script, status, input, disk, run, idx, content, original, count_before,
                   count, pi, hits, handled, results, written>>

(***************************************************************************)
(* src/refactor_logs.py                                                    *)
(***************************************************************************)

\* main: sys.exit(1) without arguments and when sys.argv[1] does not exist;
\* only sys.argv[1] is looked at.
logs_main ==
    /\ script = "logs" /\ pc = "main"
    /\ IF NArgs = 0
       THEN pc' = "exit" /\ exit_code' = 1 /\ UNCHANGED <<idx, handled>>
       ELSE IF status[1] = "missing"
            THEN pc' = "exit" /\ exit_code' = 1 /\ idx' = 1 /\ handled' = <<1>>
            ELSE pc' = "read" /\ exit_code' = exit_code /\ idx' = 1 /\ handled' = handled
    /\ UNCHANGED <<script, status, input, disk, run, content, original, count_before,
                   count, pi, hits, results, written, summary>>

\* refactor_file: open and read; nothing catches the exception of a file
\* that cannot be read, so the interpreter ends with status 1.
logs_read ==
    /\ script = "logs" /\ pc = "read"
    /\ hits' = NoHits
    /\ IF status[idx] = "unreadable"
       THEN /\ pc' = "exit" /\ exit_code' = 1 /\ handled' = Append(handled, idx)
            /\ UNCHANGED <<content, original, count, pi>>
       ELSE /\ content' = disk[idx] /\ original' = disk[idx] /\ count' = 0
            /\ pc' = "pass" /\ pi' = 1
            /\ UNCHANGED <<handled, exit_code>>
    /\ UNCHANGED <<script, status, input, disk, run, idx, count_before, results, written,
                   summary>>

\* One re.sub of refactor_file (Padrao 1 to 5); its replace function adds
\* one to count at every match.
logs_pass ==
    /\ script = "logs" /\ pc = "pass" /\ pi <= Len(RulesLogs)
    /\ LET r == RulesLogs[pi]
       IN  /\ content' = Sub(r, content)
           /\ hits' = [hits EXCEPT ![r.id] = Matches(r, content)]
           /\ count' = count + Matches(r, content)
    /\ pi' = pi + 1
    /\ UNCHANGED <<script, status, input, disk, run, pc, idx, original, count_before,
                   handled, results, written, summary, exit_code>>

\* refactor_file: the import insertion, and the return of
\* (count, content if count > 0 else original_content).
logs_import ==
    /\ script = "logs" /\ pc = "pass" /\ pi > Len(RulesLogs)
    /\ content' = IF count > 0 THEN InsertImportLogs(content, count) ELSE original
    /\ pc' = "write"
    /\ UNCHANGED <<script, status, input, disk, run, idx, original, count_before, count,
                   pi, hits, handled, results, written, summary, exit_code>>

\* main: with count 0 nothing is written; otherwise the file is written, and
\* nothing catches the exception of a write that fails.
logs_write ==
    /\ script = "logs" /\ pc = "write"
    /\ handled' = Append(handled, idx)
    /\ pc' = "exit"
    /\ IF count = 0
       THEN exit_code' = 0 /\ UNCHANGED <<disk, written>>
       ELSE IF status[idx] = "unwritable"
            THEN exit_code' = 1 /\ UNCHANGED <<disk, written>>
            ELSE /\ disk' = [disk EXCEPT ![idx] = content]
                 /\ written' = written \cup {idx}
                 /\ exit_code' = 0
    /\ UNCHANGED <<script, status, input, run, idx, content, original, count_before,
                   count, pi, hits, results, summary>>

Next ==
    \/ logger_main \/ logger_not_found \/ logger_read \/ logger_import
    \/ logger_pass \/ logger_finish \/ logger_summary
    \/ logs_main \/ logs_read \/ logs_pass \/ logs_import \/ logs_write

Spec == Init /\ [][Next]_vars

\* The program is started a second time on the files the first run left.
Relaunch ==
    /\ pc = "exit" /\ run = 1
    /\ run' = 2
    /\ pc' = "main" /\ idx' = 0 /\ content' = <<>> /\ original' = <<>>
    /\ count_before' = 0 /\ count' = 0 /\ pi' = 0 /\ hits' = NoHits
    /\ handled' = <<>> /\ results' = <<>> /\ written' = {} /\ summary' = <<>>
    /\ exit_code' = 0
    /\ UNCHANGED <<script, status, input, disk>>

SpecTwice == Init /\ [][Next \/ Relaunch]_vars

\* The process runs to its end: no step of it waits for anything.
FairSpec == Spec /\ WF_vars(Next)

(***************************************************************************)
(* Properties                                                              *)
(***************************************************************************)

\* A run over one file that can be read and written has ended.
OneFileDone == pc = "exit" /\ NArgs = 1 /\ status[1] = "ok"

\* The matches replaced in the current file, over all passes.
RECURSIVE HitsFrom(_, _)
HitsFrom(rs, i) == IF i > Len(rs) THEN 0 ELSE hits[rs[i].id] + HitsFrom(rs, i + 1)

TotalHits == HitsFrom(Rules(script), 1)

\* The count the script reports for the one file of the run.
Reported == IF script = "logger" THEN SumCounts(results) ELSE count

\* The number of target import lines of a text, in either quoting.
ImportCount(t) ==
    Cardinality({i \in 1..(Len(t) - Len(ImportLine) + 1) :
        SubSeq(t, i, i + Len(ImportLine) - 1) \in {ImportLine, ImportLineDQ}})

Max(a, b) == IF a >= b THEN a ELSE b

\* C1: a second run of the rewriter on the output of the first leaves the
\* text as it is: in the second run no file changes.
C1_Idempotent == [][run = 2 => disk' = disk]_vars

\* C2: when no pattern of the script matches the input, the output is the
\* input, the reported count is zero and the file is not written.
C2_NoMatchUnchanged ==
    (OneFileDone /\ \A i \in 1..Len(Rules(script)) : Matches(Rules(script)[i], input[1]) = 0)
       => (disk[1] = input[1] /\ written = {} /\ Reported = 0 /\ TotalHits = 0)

\* C3: a run adds at most one target import line to a file, and none when
\* the file already holds the target import in either quoting: the number
\* of import lines never exceeds max(1, number in the input).
C3_AtMostOneImport ==
    \A i \in 1..NArgs :
       /\ ImportCount(disk[i]) <= Max(1, ImportCount(input[i]))
       /\ ImportCount(input[i]) >= 1 => ImportCount(disk[i]) = ImportCount(input[i])

\* Several calls were rewritten and exactly one import line was added.
C3_Witness ==
    /\ OneFileDone /\ TotalHits >= 2
    /\ ImportCount(input[1]) = 0 /\ ImportCount(disk[1]) = 1

\* C4: when a run rewrote a call and the target import was not present, the
\* import line stands right after the last import line of the input, or
\* is the first line when the input has no import.
C4_ImportAfterLastImport ==
    (OneFileDone /\ TotalHits >= 1 /\ ImportCount(input[1]) = 0
       /\ ~has_logger_import(input[1]))
       => LET k == LastImportIdx(SplitLines(input[1]))
              ls == SplitLines(disk[1])
          IN  Len(ls) > k /\ ls[k + 1] = ImportLine

\* C5: when every call of the file was rewritten, no interpolation marker
\* is left in the text, whatever rule rewrote the call.
C5_NoInterpolationLeft ==
    (OneFileDone /\ TotalHits >= 1 /\ CountConsole(disk[1]) = 0) => ~HasInterp(disk[1])

\* C10: the count reported for a file is the number of matches replaced.
C10_CountIsReplaced == OneFileDone => Reported = TotalHits

\* The severity of the leveled call for a console call.
LevelOf(h) ==
    CASE h = "console.log" -> "log.info"
      [] h = "console.warn" -> "log.warn"
      [] h = "console.error" -> "log.error"

ShapeKinds ==
    {"simple", "tmpl", "tmplinterp", "strvar", "tmplvar", "icons", "iconsinterp", "iconsvar"}

TrailingKinds == {"strvar", "tmplvar", "iconsvar"}

StmtOf(kind, h) ==
    CASE kind = "simple" -> SSimple(h)
      [] kind = "tmpl" -> STmpl(h)
      [] kind = "tmplinterp" -> STmplInterp(h)
      [] kind = "strvar" -> SStrVar(h)
      [] kind = "tmplvar" -> STmplVar(h)
      [] kind = "icons" -> SIcons(h)
      [] kind = "iconsinterp" -> SIconsInterp(h)
      [] kind = "iconsvar" -> SIconsVar(h)

\* logError(first, q msg q, { component: q comp q })
ErrorFirstCall(first, q, msg, comp) ==
    <<"logError", "(">> \o first \o <<",", " ", q>> \o msg
      \o <<q, ",", " ", "{", " ", "component:", " ", q, comp, q, " ", "}", ")">>

\* level({ msg: q msg q more })
ObjectCall(level, q, msg, more) ==
    <<level, "(", "{", " ", "msg:", " ", q>> \o msg \o <<q>> \o more \o <<" ", "}", ")">>

TodoField == <<",", " ", "component:", " ", "'", "todo", "'">>
ErrField == <<",", " ", "err">>

\* What src/refactor-logger.py makes of a statement, <<>> when it leaves it.
ExpectedLogger(kind, h) ==
    IF kind \in {"simple", "tmpl", "tmplinterp", "icons", "iconsinterp"}
    THEN ObjectCall(LevelOf(h), "\"", <<"Failed">>, <<>>)
    ELSE IF h = "console.log" THEN <<>>
    ELSE ErrorFirstCall(<<"err">>, "\"",
            CASE kind = "strvar" -> <<"x", " ", "Failed", ":">>
              [] kind = "tmplvar" -> <<"Failed", " ", "$", "{", "id", "}">>
              [] kind = "iconsvar" -> <<"$", "{", "ICONS.OK", "}", " ", "Failed">>,
            "refactored")

\* What src/refactor_logs.py makes of a statement, <<>> when it leaves it.
ExpectedLogs(kind, h) ==
    IF kind \in {"icons", "iconsinterp", "iconsvar"}
    THEN LET msg == IF kind = "iconsinterp" THEN <<"Failed", " ", "$", "{", "id", "}">>
                    ELSE <<"Failed">>
         IN  IF h = "console.error"
             THEN ErrorFirstCall(
                     IF kind = "iconsvar" THEN <<"err">>
                     ELSE <<"new", " ", "Error", "(", "\"">> \o msg \o <<"\"", ")">>,
                     "'", msg, "todo")
             ELSE ObjectCall(LevelOf(h), "'", msg,
                     TodoField \o (IF kind = "iconsvar" THEN ErrField ELSE <<>>))
    ELSE IF kind = "strvar" /\ h = "console.error"
    THEN ErrorFirstCall(<<"err">>, "'", <<"[", "x", "]", " ", "Failed", ":">>, "todo")
    ELSE IF kind = "strvar" /\ h = "console.log"
    THEN ObjectCall("log.info", "'", <<"[", "x", "]", " ", "Failed", ":">>, ErrField)
    ELSE <<>>

Expected(sc, kind, h) ==
    IF sc = "logger" THEN ExpectedLogger(kind, h) ELSE ExpectedLogs(kind, h)

C7_ExitStatus ==
    pc = "exit" =>
      (exit_code # 0 <=>
         IF script = "logger" THEN NArgs = 0
         ELSE \/ NArgs = 0
              \/ status[1] \in {"missing", "unreadable"}
              \/ status[1] = "unwritable" /\ count > 0)

\* refactor-logger.py ended with status 0 though both its paths failed.
C7_Witness ==
    /\ pc = "exit" /\ script = "logger" /\ NArgs = 2
    /\ status[1] = "missing" /\ status[2] = "unreadable" /\ exit_code = 0

\* C7 as stated: the status is other than 0 exactly without file arguments.
C7_Original == pc = "exit" => (exit_code # 0 <=> NArgs = 0)

\* refactor_file of src/refactor-logger.py as a function of the text: the
\* import, then the passes.
RECURSIVE PassesFrom(_, _, _)
PassesFrom(rs, t, i) == IF i > Len(rs) THEN t ELSE PassesFrom(rs, Sub(rs[i], t), i + 1)

RewriteLogger(t) ==
    IF CountConsole(t) = 0 THEN t ELSE PassesFrom(RulesLogger, add_logger_import(t), 1)

AllPaths == [i \in 1..NArgs |-> i]

\* The file is read and, when its text changes, written.
Succeeded(i) ==
    \/ status[i] = "ok"
    \/ status[i] = "unwritable" /\ RewriteLogger(input[i]) = input[i]

CountFor(i) ==
    IF RewriteLogger(input[i]) = input[i] THEN 0
    ELSE CountConsole(input[i]) - CountConsole(RewriteLogger(input[i]))

RECURSIVE ResultsFrom(_)
ResultsFrom(i) ==
    IF i > NArgs THEN <<>>
    ELSE (IF Succeeded(i) THEN <<(<<i, CountFor(i)>>)>> ELSE <<>>) \o ResultsFrom(i + 1)

\* The number of steps the program can still take, at most.
Measure ==
    LET L == Len(Rules(script))
        K == L + 4
    IN  IF script = "logger"
        THEN CASE pc = "main" -> NArgs * K + 2
               [] pc = "loop" -> (NArgs - idx + 1) * K + 1
               [] pc = "import" -> (NArgs - idx) * K + L + 4
               [] pc = "pass" -> (NArgs - idx) * K + (L - pi) + 3
               [] pc = "exit" -> 0
        ELSE CASE pc = "main" -> L + 5
               [] pc = "read" -> L + 4
               [] pc = "pass" -> (L - pi) + 3
               [] pc = "write" -> 1
               [] pc = "exit" -> 0

\* Some step of the program can be taken: the guards of its actions, which
\* between them cover every position but "exit".
CanStep ==
    \/ script = "logger" /\ pc \in {"main", "import", "pass"}
    \/ script = "logger" /\ pc = "loop" /\ idx >= 1
    \/ script = "logs" /\ pc = "main"
    \/ script = "logs" /\ pc \in {"read", "pass", "write"} /\ idx \in 1..NArgs

\* C8 as amended: refactor-logger.py deals with every path once, in argument
\* order, whatever fails; its summary counts the files processed with
\* success and sums their counts; the run always ends: a step can be taken
\* until the end and every step lowers Measure, so under the fairness of
\* FairSpec the end is reached.  refactor_logs.py deals with its first
\* path only and prints no summary.
C8_Driver ==
    /\ [](pc = "exit" /\ script = "logger" /\ NArgs > 0 =>
            /\ handled = AllPaths
            /\ results = ResultsFrom(1)
            /\ summary = <<[files |-> Len(ResultsFrom(1)),
                            statements |-> SumCounts(ResultsFrom(1))]>>)
    /\ [](pc = "exit" /\ script = "logs" /\ NArgs > 0 =>
            handled = <<1>> /\ summary = <<>>)
    /\ [](pc # "exit" => CanStep)
    /\ [][Measure' < Measure /\ Measure' >= 0]_vars

\* The first path could not be read and the second was processed.
C8_Witness ==
    /\ pc = "exit" /\ script = "logger" /\ NArgs = 2
    /\ status[1] = "unreadable" /\ status[2] = "ok"
    /\ input[2] = SStrVar("console.error")
    /\ results = <<(<<2, 1>>)>>
    /\ summary = <<[files |-> 1, statements |-> 1]>>

\* C8 as stated: every path is dealt with once, in order, and the summary is
\* reached.
C8_Original ==
    (pc = "exit" /\ NArgs > 0) => (handled = AllPaths /\ summary # <<>>)

\* The texts all of whose statements are calls with a trailing argument.
TrailingFirst == {StmtOf(k, h) : k \in TrailingKinds, h \in ConsoleCalls}

RECURSIVE TrailingBodies(_)
TrailingBodies(k) ==
    IF k = 1 THEN TrailingFirst
    ELSE {b \o <<"\n">> \o f : b \in TrailingBodies(k - 1),
                                f \in FollowUps \cap TrailingFirst}

TrailingInputs ==
    {p \o b : p \in Preludes, b \in UNION {TrailingBodies(k) : k \in 1..MaxStmts}}

====
